---- MODULE Spec2Model ----
(***************************************************************************)
(* HackJudge-AI: the inference resolvers of services/geminiService.ts      *)
(* (analyzeHackathonUrl, analyzeVideoDemo) and their callers in            *)
(* components/SmartMirror.tsx and components/AnalysisResults.tsx.          *)
(*                                                                         *)
(* JSON values are tagged records, so that "missing", "null" and a value   *)
(* of the wrong kind stay distinguishable:                                 *)
(*   a list-valued field is [k, v] : k is "undefined", "null", "string"    *)
(*     (a value that is not a list) or "array"; v is the list.             *)
(*   a string-valued field is [k, s] : k is "undefined", "null" or         *)
(*     "string"; s is the text.                                            *)
(***************************************************************************)
EXTENDS Integers, Sequences, FiniteSets, TLC

\* ------------------------------------------------------------------ bounds
\* longest judges list the inference service sends back
MaxJudges == 3

\* invocations of handleAnalyze in one session
MaxCalls == 2

\* recordings started in one session
MaxTakes == 2
\* the speech-recognition events handled
MaxEvents == 3
\* the last clock reading, in ms
MaxClock == 13000

\* ------------------------------------------------------- JSON value helpers
Undefined == [k |-> "undefined", v |-> <<>>]
Null == [k |-> "null", v |-> <<>>]
NotAList == [k |-> "string", v |-> <<>>]
Arr(v) == [k |-> "array", v |-> v]

UndefinedStr == [k |-> "undefined", s |-> ""]
NullStr == [k |-> "null", s |-> ""]
Str(s) == [k |-> "string", s |-> s]

\* JavaScript truthiness of a list-valued field: undefined and null are falsy,
\* every array (the empty one too) is truthy
TruthyList(x) == x.k \notin {"undefined", "null"}

\* JavaScript truthiness of a string-valued field: "" is falsy as well
TruthyStr(x) == x.k = "string" /\ x.s # ""

\* Array.isArray
IsArray(x) == x.k = "array"

\* --------------------------------------------------------------- types.ts
\* the four list fields of a Judge
JudgeListFields == {"values", "focusAreas", "redFlags", "recommendedTalkingPoints"}

\* the three list fields of HackathonData.strategy
StrategyListFields == {"structure", "keyPhrases", "featuresToEmphasize"}

\* the five fields of HackathonData
HackathonDataFields == {"title", "url", "judges", "criteria", "strategy"}

Present(x) == x.k \notin {"undefined", "null"}

\* -------------------------------------------- what the service can send back
\* judges as the service may describe them: the schema declares no field
\* required, so each list may be there, be null, or be left out
JudgePool ==
    { [name |-> "Ada", role |-> "CTO", company |-> "Acme",
       values |-> Arr(<<"Rigor">>), focusAreas |-> Arr(<<>>),
       redFlags |-> Arr(<<"Hype">>), recommendedTalkingPoints |-> Arr(<<"Show tests">>)],
      [name |-> "Bo", role |-> "Investor", company |-> "Seed",
       values |-> Undefined, focusAreas |-> Arr(<<"Market">>),
       redFlags |-> Arr(<<>>), recommendedTalkingPoints |-> Arr(<<>>)],
      [name |-> "Cy", role |-> "Designer", company |-> "Studio",
       values |-> Arr(<<"Craft">>), focusAreas |-> Undefined,
       redFlags |-> Null, recommendedTalkingPoints |-> Undefined] }

RECURSIVE SeqsUpTo(_, _)
SeqsUpTo(S, n) ==
    IF n = 0 THEN {<<>>}
    ELSE LET shorter == SeqsUpTo(S, n - 1)
         IN  shorter \cup {Append(q, e) : q \in {r \in shorter : Len(r) = n - 1}, e \in S}

JudgesValues == {Undefined, Null, NotAList} \cup {Arr(q) : q \in SeqsUpTo(JudgePool, MaxJudges)}

ScriptValues == {UndefinedStr, NullStr, Str(""), Str("Hello judges")}
StructureValues == {Undefined, Null, Arr(<<[time |-> "0:00", action |-> "Hook"]>>)}
PhraseValues == {Undefined, Null, Arr(<<"ship it">>)}

UndefinedStrategy ==
    [k |-> "undefined", structure |-> Undefined, keyPhrases |-> Undefined,
     featuresToEmphasize |-> Undefined, generatedScript |-> UndefinedStr]

NullStrategy == [UndefinedStrategy EXCEPT !.k = "null"]

StrategyValues ==
    {UndefinedStrategy, NullStrategy} \cup
    { [k |-> "object", structure |-> st, keyPhrases |-> kp,
       featuresToEmphasize |-> fe, generatedScript |-> gs] :
        st \in StructureValues, kp \in PhraseValues, fe \in PhraseValues, gs \in ScriptValues }

\* a parsed value none of whose fields is set: what JSON.parse gives for {} ,
\* and the shape used for [] , null and a bare number or string
EmptyParsed(kind) ==
    [k |-> kind, title |-> UndefinedStr, url |-> UndefinedStr, criteria |-> Undefined,
     judges |-> Undefined, strategy |-> UndefinedStrategy]

NoData == EmptyParsed("none")

ParsedObjects ==
    { [k |-> "object", title |-> t, url |-> u, criteria |-> c, judges |-> j, strategy |-> s] :
        t \in {UndefinedStr, Str("HackDay")}, u \in {UndefinedStr, Str("https://lu.ma/h")},
        c \in {Undefined, Arr(<<"Impact">>)}, j \in JudgesValues, s \in StrategyValues }

ParsedValues ==
    ParsedObjects \cup {EmptyParsed("null"), EmptyParsed("primitive"), EmptyParsed("array")}

\* the answers of ai.models.generateContent as analyzeHackathonUrl sees them
UrlResponses ==
    { [kind |-> "rejected", parsed |-> NoData],
      [kind |-> "no_text", parsed |-> NoData],
      [kind |-> "unparseable", parsed |-> NoData] }
    \cup { [kind |-> "json", parsed |-> p] : p \in ParsedValues }

NoResponse == [kind |-> "none", parsed |-> NoData]

\* ------------------------------------- analyzeHackathonUrl: the sanitation
\* a fallback panel whose second entry was left out
FallbackJudgesOneEntry ==
    << [name |-> "The Technical Judge", role |-> "Senior Engineer", company |-> "Tech Corp",
        values |-> Arr(<<"Clean Code", "Scalability">>),
        focusAreas |-> Arr(<<"Architecture", "Stack choice">>),
        redFlags |-> Arr(<<"Spaghetti code", "Security flaws">>),
        recommendedTalkingPoints |-> Arr(<<"Mention your tech stack", "Explain how it scales">>)] >>

\* a fallback panel of the three archetypes the prompt names
FallbackJudgesThreeArchetypes ==
    << [name |-> "The Technical Lead", role |-> "Senior Engineer", company |-> "Tech Corp",
        values |-> Arr(<<"Clean Code">>), focusAreas |-> Arr(<<"Architecture">>),
        redFlags |-> Arr(<<"Spaghetti code">>), recommendedTalkingPoints |-> Arr(<<"Mention your tech stack">>)],
       [name |-> "The VC Investor", role |-> "Partner", company |-> "Capital LLC",
        values |-> Arr(<<"Market size">>), focusAreas |-> Arr(<<"Business model">>),
        redFlags |-> Arr(<<"No market">>), recommendedTalkingPoints |-> Arr(<<"Explain the 'Why'">>)],
       [name |-> "The Product Designer", role |-> "Product Manager", company |-> "Innovation Inc",
        values |-> Arr(<<"User Experience">>), focusAreas |-> Arr(<<"UI/UX">>),
        redFlags |-> Arr(<<"Confusing UI">>), recommendedTalkingPoints |-> Arr(<<"Show the user flow">>)] >>

FallbackJudges ==
    << [name |-> "The Technical Judge", role |-> "Senior Engineer", company |-> "Tech Corp",
        values |-> Arr(<<"Clean Code", "Scalability">>),
        focusAreas |-> Arr(<<"Architecture", "Stack choice">>),
        redFlags |-> Arr(<<"Spaghetti code", "Security flaws">>),
        recommendedTalkingPoints |-> Arr(<<"Mention your tech stack", "Explain how it scales">>)],
       [name |-> "The Product Judge", role |-> "Product Manager", company |-> "Innovation Inc",
        values |-> Arr(<<"User Experience", "Problem/Solution Fit">>),
        focusAreas |-> Arr(<<"UI/UX", "User Journey">>),
        redFlags |-> Arr(<<"Confusing UI", "No clear problem statement">>),
        recommendedTalkingPoints |-> Arr(<<"Show the user flow", "Explain the 'Why'">>)] >>

\* the test without its "length === 0" disjunct
NoJudgesLengthUnchecked(data) ==
    \/ ~TruthyList(data.judges)
    \/ ~IsArray(data.judges)

\* if (!data.judges || !Array.isArray(data.judges) || data.judges.length === 0)
NoJudges(data) ==
    \/ ~TruthyList(data.judges)
    \/ ~IsArray(data.judges)
    \/ Len(data.judges.v) = 0

\* a sanitation that tops a short panel up with the fallback entries
SanitizeJudgesPadded(data) ==
    IF ~TruthyList(data.judges) \/ ~IsArray(data.judges)
    THEN [data EXCEPT !.judges = Arr(FallbackJudges)]
    ELSE IF Len(data.judges.v) < 3
         THEN [data EXCEPT !.judges = Arr(data.judges.v \o FallbackJudges)]
         ELSE data

SanitizeJudges(data) ==
    IF NoJudges(data) THEN [data EXCEPT !.judges = Arr(FallbackJudges)] ELSE data

FallbackStrategy ==
    [k |-> "object", structure |-> Arr(<<>>), keyPhrases |-> Arr(<<>>),
     featuresToEmphasize |-> Arr(<<>>),
     generatedScript |-> Str("Could not generate script. Please try analyzing again.")]

\* if (!data.strategy) data.strategy = {...}
SanitizeStrategy(data) ==
    IF data.strategy.k \in {"undefined", "null"}
    THEN [data EXCEPT !.strategy = FallbackStrategy]
    ELSE data

\* a test for "=== undefined" in place of the falsiness test
EnsureGeneratedScriptUndefinedOnly(data) ==
    IF data.strategy.generatedScript.k = "undefined"
    THEN [data EXCEPT !.strategy.generatedScript = Str("Script generation incomplete.")]
    ELSE data

\* if (!data.strategy.generatedScript) data.strategy.generatedScript = "..."
EnsureGeneratedScript(data) ==
    IF ~TruthyStr(data.strategy.generatedScript)
    THEN [data EXCEPT !.strategy.generatedScript = Str("Script generation incomplete.")]
    ELSE data

\* if (!data.strategy.structure) data.strategy.structure = []
EnsureStructure(data) ==
    IF ~TruthyList(data.strategy.structure)
    THEN [data EXCEPT !.strategy.structure = Arr(<<>>)]
    ELSE data

\* if (!data.strategy.keyPhrases) data.strategy.keyPhrases = []
EnsureKeyPhrases(data) ==
    IF ~TruthyList(data.strategy.keyPhrases)
    THEN [data EXCEPT !.strategy.keyPhrases = Arr(<<>>)]
    ELSE data

\* the whole pass between JSON.parse and "return data"
Normalize(data) ==
    EnsureKeyPhrases(EnsureStructure(EnsureGeneratedScript(SanitizeStrategy(SanitizeJudges(data)))))

\* what one call of analyzeHackathonUrl ends in, given the service's answer
AnalyzeHackathonUrlOutcome(resp) ==
    CASE resp.kind = "rejected" ->
            [status |-> "raised", error |-> "generateContent rejected", value |-> NoData]
      [] resp.kind = "no_text" ->
            [status |-> "raised", error |-> "No data returned from Gemini", value |-> NoData]
      [] resp.kind = "unparseable" ->
            [status |-> "raised", error |-> "Invalid JSON response from AI", value |-> NoData]
      [] resp.kind = "json" /\ resp.parsed.k \in {"null", "primitive"} ->
            [status |-> "raised", error |-> "TypeError", value |-> NoData]
      [] OTHER ->
            [status |-> "returned", error |-> "", value |-> Normalize(resp.parsed)]

\* --------------------------------------------------------- analyzeVideoDemo
UndefinedNum == [k |-> "undefined", n |-> 0]
Num(n) == [k |-> "number", n |-> n]

\* a parsed critique none of whose fields is set
EmptyAnalysis(kind) ==
    [k |-> kind, overallScore |-> UndefinedNum, strengths |-> Undefined,
     improvements |-> Undefined, judgeSpecificFeedback |-> Undefined, qaQuestions |-> Undefined]

NoAnalysis == EmptyAnalysis("none")

AnalysisObjects ==
    { [k |-> "object", overallScore |-> sc, strengths |-> st, improvements |-> im,
       judgeSpecificFeedback |-> jf, qaQuestions |-> qa] :
        sc \in {UndefinedNum, Num(85)},
        st \in {Undefined, Arr(<<"Clear problem statement">>)},
        im \in {Undefined, Arr(<<"0:40 slow down">>)},
        jf \in {Undefined, Arr(<<>>), Arr(<<[judgeName |-> "Ada", feedback |-> "Solid"]>>)},
        qa \in {Undefined, Arr(<<[question |-> "How does it scale?"]>>)} }

AnalysisValues ==
    AnalysisObjects \cup {EmptyAnalysis("null"), EmptyAnalysis("primitive"), EmptyAnalysis("array")}

\* the answers of ai.models.generateContent as analyzeVideoDemo sees them
VideoResponses ==
    { [kind |-> "rejected", parsed |-> NoAnalysis],
      [kind |-> "no_text", parsed |-> NoAnalysis],
      [kind |-> "unparseable", parsed |-> NoAnalysis] }
    \cup { [kind |-> "json", parsed |-> p] : p \in AnalysisValues }

NoVideoResponse == [kind |-> "none", parsed |-> NoAnalysis]

\* the judges lists analyzeVideoDemo is called with
JudgesArgs == { j \in JudgesValues : IsArray(j) }

\* judgesList: the names the prompt asks a prediction for
PromptJudges(judges) ==
    IF TruthyList(judges) /\ Len(judges.v) > 0
    THEN [i \in 1..Len(judges.v) |-> judges.v[i].name]
    ELSE <<"Standard Hackathon Judges">>

\* an analyzeVideoDemo that returns without the judges' feedback
AnalyzeVideoDemoOutcomeNoFeedback(resp) ==
    CASE resp.kind = "rejected" ->
            [status |-> "raised", error |-> "generateContent rejected", value |-> NoAnalysis]
      [] resp.kind = "no_text" ->
            [status |-> "raised", error |-> "Analysis failed", value |-> NoAnalysis]
      [] resp.kind = "unparseable" ->
            [status |-> "raised", error |-> "SyntaxError", value |-> NoAnalysis]
      [] OTHER ->
            [status |-> "returned", error |-> "",
             value |-> [resp.parsed EXCEPT !.judgeSpecificFeedback = Arr(<<>>)]]

\* a parse failure swallowed into a best-effort empty critique
AnalyzeVideoDemoOutcomeBestEffort(resp) ==
    CASE resp.kind = "rejected" ->
            [status |-> "raised", error |-> "generateContent rejected", value |-> NoAnalysis]
      [] resp.kind = "no_text" ->
            [status |-> "raised", error |-> "Analysis failed", value |-> NoAnalysis]
      [] resp.kind = "unparseable" ->
            [status |-> "returned", error |-> "", value |-> EmptyAnalysis("object")]
      [] OTHER ->
            [status |-> "returned", error |-> "", value |-> resp.parsed]

\* what one call of analyzeVideoDemo ends in once its request is answered
AnalyzeVideoDemoOutcome(resp) ==
    CASE resp.kind = "rejected" ->
            [status |-> "raised", error |-> "generateContent rejected", value |-> NoAnalysis]
      [] resp.kind = "no_text" ->
            [status |-> "raised", error |-> "Analysis failed", value |-> NoAnalysis]
      [] resp.kind = "unparseable" ->
            [status |-> "raised", error |-> "SyntaxError", value |-> NoAnalysis]
      [] OTHER ->
            [status |-> "returned", error |-> "", value |-> resp.parsed]

\* ------------------------------------------------------ declared schemas
\* the parsed answer has the shape the HackathonData schema declares
ConformsToHackathonData(p) ==
    /\ p.k = "object"
    /\ p.title.k = "string" /\ p.url.k = "string"
    /\ p.criteria.k = "array" /\ p.judges.k = "array"
    /\ \A i \in 1..Len(p.judges.v) : \A f \in JudgeListFields : p.judges.v[i][f].k = "array"
    /\ p.strategy.k = "object"
    /\ p.strategy.generatedScript.k = "string"
    /\ \A f \in StrategyListFields : p.strategy[f].k = "array"

\* the parsed answer has the shape the AnalysisResult schema declares
ConformsToAnalysisResult(p) ==
    /\ p.k = "object"
    /\ p.overallScore.k = "number"
    /\ p.strengths.k = "array" /\ p.improvements.k = "array"
    /\ p.judgeSpecificFeedback.k = "array" /\ p.qaQuestions.k = "array"

\* ------------------------------------------------- getRealTimeFeedback
\* what generateContent can answer a tip request with: a rejection, or a
\* response whose text is absent, empty or a tip
TipResponses ==
    {[kind |-> "rejected", text |-> UndefinedStr]}
    \cup {[kind |-> "answered", text |-> t] :
            t \in {UndefinedStr, Str(""), Str("Slow down a little.")}}

\* no answer yet
NoTipResponse == [kind |-> "none", text |-> UndefinedStr]

\* getRealTimeFeedback whose catch block passes the error on
GetRealTimeFeedbackOutcomeRethrow(resp) ==
    IF resp.kind = "rejected"
    THEN [status |-> "raised", tip |-> ""]
    ELSE [status |-> "returned",
          tip |-> IF TruthyStr(resp.text) THEN resp.text.s ELSE "Keep going!"]

\* getRealTimeFeedback from the answer on: response.text || "Keep going!", and
\* "Keep going!" from the catch block
GetRealTimeFeedbackOutcome(resp) ==
    IF resp.kind = "rejected"
    THEN [status |-> "returned", tip |-> "Keep going!"]
    ELSE [status |-> "returned",
          tip |-> IF TruthyStr(resp.text) THEN resp.text.s ELSE "Keep going!"]

\* ------------------------------------------------------------------- state
VARIABLES
    \* one call of a resolver, seen from inside geminiService.ts
    fn,         \* the resolver being called: "none", "analyzeHackathonUrl", "analyzeVideoDemo"
    pc,         \* "idle", "encoding", "awaiting", "returned", "raised"
    requests,   \* generateContent requests this call has issued
    inFlight,   \* generateContent requests of this call not yet answered
    response,   \* the answer analyzeHackathonUrl received
    ret,        \* the HackathonData analyzeHackathonUrl returned
    videoResponse, \* the answer analyzeVideoDemo received
    analysis,   \* the AnalysisResult analyzeVideoDemo returned
    error,      \* the error the call raised
    tipResponse, \* the answer getRealTimeFeedback received
    feedback,   \* the tip getRealTimeFeedback returned
    judgesArg,  \* hackathonData.judges of the argument of analyzeVideoDemo
    \* the SmartMirror component and the AnalysisResults component it renders
    url,            \* useState('')
    isLoading,      \* useState(false)
    logs,           \* useState<Log[]>([])
    hackathonData,  \* useState<HackathonData | null>(null); NoData is null
    isRecording,    \* useState(false)
    recordedBlob,   \* useState<Blob | null>(null); FALSE is null
    view,           \* useState<'input' | 'coach' | 'results'>('input')
    stream,         \* streamRef.current is set
    recorder,       \* mediaRecorderRef.current: "none", "recording", "inactive"
    stopping,       \* recorders stopped whose onstop has not fired yet
    analyses,       \* the invocations of handleAnalyze, in order
    critiques,      \* the runs of AnalysisResults' runAnalysis, in order
    instances,      \* AnalysisResults components mounted so far
    mounted,        \* the AnalysisResults component now mounted, 0 if none
    loading,        \* AnalysisResults: useState(true)
    result,         \* AnalysisResults: useState<AnalysisResult | null>(null); NoAnalysis is null
    \* the live coach of SmartMirror: speech recognition, pacing and tips
    now,                 \* Date.now(), in ms since the component was created
    lastTranscriptTime,  \* lastTranscriptTimeRef.current
    wordCount,           \* wordCountRef.current
    wpm,                 \* useState(0)
    coachFeedback,       \* useState("Ready when you are...")
    recognition,         \* recognitionRef.current: "idle", "listening", "stopping"
    tips,                \* the calls of getRealTimeFeedback by onresult, in order
    utterances,          \* window.speechSynthesis: the utterance spoken and those queued
    events,              \* the runs of recognition.onresult so far
    observations         \* the last two runs of recognition.onresult, in order

resolverVars ==
    <<fn, pc, requests, inFlight, response, ret, videoResponse, analysis, error, tipResponse,
      feedback, judgesArg>>

mirrorVars ==
    <<url, isLoading, logs, hackathonData, isRecording, recordedBlob, view, stream, recorder,
      stopping, analyses, critiques, instances, mounted, loading, result>>

pacerVars ==
    <<now, lastTranscriptTime, wordCount, wpm, coachFeedback, recognition, tips, utterances,
      events, observations>>

vars == <<resolverVars, mirrorVars, pacerVars>>

\* the components as constructed
MirrorInit ==
    /\ url = ""
    /\ isLoading = FALSE
    /\ logs = <<>>
    /\ hackathonData = NoData
    /\ isRecording = FALSE
    /\ recordedBlob = FALSE
    /\ view = "input"
    /\ stream = FALSE
    /\ recorder = "none"
    /\ stopping = 0
    /\ analyses = <<>>
    /\ critiques = <<>>
    /\ instances = 0
    /\ mounted = 0
    /\ loading = TRUE
    /\ result = NoAnalysis

\* no resolver call under way
ResolverInit ==
    /\ fn = "none"
    /\ pc = "idle"
    /\ requests = 0
    /\ inFlight = 0
    /\ response = NoResponse
    /\ ret = NoData
    /\ videoResponse = NoVideoResponse
    /\ analysis = NoAnalysis
    /\ error = ""
    /\ tipResponse = NoTipResponse
    /\ feedback = ""
    /\ judgesArg = Arr(<<>>)

\* the live coach as constructed
PacerInit ==
    /\ now = 0
    /\ lastTranscriptTime = 0
    /\ wordCount = 0
    /\ wpm = 0
    /\ coachFeedback = "Ready when you are..."
    /\ recognition = "idle"
    /\ tips = <<>>
    /\ utterances = <<>>
    /\ events = 0
    /\ observations = <<>>

Init == ResolverInit /\ MirrorInit /\ PacerInit

\* analyzeHackathonUrl up to "await ai.models.generateContent"
CallAnalyzeHackathonUrl ==
    /\ pc = "idle"
    /\ fn' = "analyzeHackathonUrl"
    /\ pc' = "awaiting"
    /\ requests' = requests + 1
    /\ inFlight' = inFlight + 1
    /\ UNCHANGED judgesArg
    /\ UNCHANGED <<response, ret, videoResponse, analysis, error, tipResponse, feedback,
                   mirrorVars, pacerVars>>

\* the request is answered and analyzeHackathonUrl runs to its return or throw
HackathonUrlSettles ==
    /\ fn = "analyzeHackathonUrl"
    /\ pc = "awaiting"
    /\ \E resp \in UrlResponses :
         LET out == AnalyzeHackathonUrlOutcome(resp)
         IN  /\ response' = resp
             /\ pc' = out.status
             /\ ret' = out.value
             /\ error' = out.error
    /\ inFlight' = inFlight - 1
    /\ UNCHANGED judgesArg
    /\ UNCHANGED <<fn, requests, videoResponse, analysis, tipResponse, feedback,
                   mirrorVars, pacerVars>>

\* analyzeVideoDemo up to "await blobToBase64(videoBlob)"
CallAnalyzeVideoDemo ==
    /\ pc = "idle"
    /\ fn' = "analyzeVideoDemo"
    /\ pc' = "encoding"
    /\ judgesArg' \in JudgesArgs
    /\ UNCHANGED <<requests, inFlight, response, ret, videoResponse, analysis, error, tipResponse, feedback,
                   mirrorVars, pacerVars>>

\* reader.onloadend: the video is encoded and the request goes out
BlobToBase64Resolves ==
    /\ fn = "analyzeVideoDemo"
    /\ pc = "encoding"
    /\ pc' = "awaiting"
    /\ requests' = requests + 1
    /\ inFlight' = inFlight + 1
    /\ UNCHANGED judgesArg
    /\ UNCHANGED <<fn, response, ret, videoResponse, analysis, error, tipResponse, feedback,
                   mirrorVars, pacerVars>>

\* reader.onerror: the promise rejects, the catch block logs and rethrows
BlobToBase64Rejects ==
    /\ fn = "analyzeVideoDemo"
    /\ pc = "encoding"
    /\ pc' = "raised"
    /\ error' = "FileReader error"
    /\ UNCHANGED judgesArg
    /\ UNCHANGED <<fn, requests, inFlight, response, ret, videoResponse, analysis, tipResponse, feedback,
                   mirrorVars, pacerVars>>

\* the request is answered and analyzeVideoDemo runs to its return or throw
VideoDemoSettles ==
    /\ fn = "analyzeVideoDemo"
    /\ pc = "awaiting"
    /\ \E resp \in VideoResponses :
         LET out == AnalyzeVideoDemoOutcome(resp)
         IN  /\ videoResponse' = resp
             /\ pc' = out.status
             /\ analysis' = out.value
             /\ error' = out.error
    /\ inFlight' = inFlight - 1
    /\ UNCHANGED judgesArg
    /\ UNCHANGED <<fn, requests, response, ret, tipResponse, feedback,
                   mirrorVars, pacerVars>>

\* getRealTimeFeedback up to "await ai.models.generateContent"
CallGetRealTimeFeedback ==
    /\ pc = "idle"
    /\ fn' = "getRealTimeFeedback"
    /\ pc' = "awaiting"
    /\ requests' = requests + 1
    /\ inFlight' = inFlight + 1
    /\ UNCHANGED judgesArg
    /\ UNCHANGED <<response, ret, videoResponse, analysis, error, tipResponse, feedback,
                   mirrorVars, pacerVars>>

\* the request is answered and getRealTimeFeedback runs to its return
RealTimeFeedbackSettles ==
    /\ fn = "getRealTimeFeedback"
    /\ pc = "awaiting"
    /\ \E resp \in TipResponses :
         LET out == GetRealTimeFeedbackOutcome(resp)
         IN  /\ tipResponse' = resp
             /\ pc' = out.status
             /\ feedback' = out.tip
    /\ inFlight' = inFlight - 1
    /\ UNCHANGED judgesArg
    /\ UNCHANGED <<fn, requests, response, ret, videoResponse, analysis, error,
                   mirrorVars, pacerVars>>

Next ==
    \/ CallAnalyzeHackathonUrl
    \/ HackathonUrlSettles
    \/ CallAnalyzeVideoDemo
    \/ BlobToBase64Resolves
    \/ BlobToBase64Rejects
    \/ VideoDemoSettles
    \/ CallGetRealTimeFeedback
    \/ RealTimeFeedbackSettles

Spec == Init /\ [][Next]_vars

\* ============================================== SmartMirror, AnalysisResults
\* the answers to analyzeHackathonUrl's request the component model draws from
MirrorUrlResponses ==
    { r \in UrlResponses :
        \/ r.kind # "json"
        \/ r.parsed = EmptyParsed("null")
        \/ r.parsed = EmptyParsed("object")
        \/ /\ ConformsToHackathonData(r.parsed)
           /\ Len(r.parsed.judges.v) = 1
           /\ TruthyStr(r.parsed.strategy.generatedScript) }

\* the answers to analyzeVideoDemo's request the component model draws from
MirrorVideoResponses ==
    { r \in VideoResponses :
        \/ r.kind # "json"
        \/ r.parsed = EmptyAnalysis("null")
        \/ ConformsToAnalysisResult(r.parsed) /\ Len(r.parsed.judgeSpecificFeedback.v) = 1 }

\* simulateWorkflow: the messages of the six timers, in order of delay
WorkflowSteps ==
    << "Connecting to Gemini 2.5 Flash...",
       "Scraping hackathon URL for details...",
       "Identifying judging panel...",
       "Searching LinkedIn for judge backgrounds...",
       "Analyzing judge values & red flags...",
       "Generating demo script & strategy..." >>

\* addLog
AddLog(ls, msg, type) == Append(ls, [msg |-> msg, type |-> type])

\* <AnalysisResults> is rendered
ShowsResults == view = "results" /\ recordedBlob /\ hackathonData # NoData

\* initCamera: getUserMedia resolves and the stream is kept
InitCameraResolves ==
    /\ ~stream
    /\ stream' = TRUE
    /\ UNCHANGED <<url, isLoading, logs, hackathonData, isRecording, recordedBlob, view, recorder,
                   stopping, analyses, critiques, instances, mounted, loading, result>>
    /\ UNCHANGED <<resolverVars, pacerVars>>

\* onChange of the input field
SetUrl(u) ==
    /\ view = "input"
    /\ u # url
    /\ url' = u
    /\ UNCHANGED <<isLoading, logs, hackathonData, isRecording, recordedBlob, view, stream, recorder,
                   stopping, analyses, critiques, instances, mounted, loading, result>>
    /\ UNCHANGED <<resolverVars, pacerVars>>

\* handleAnalyze up to "await analyzeHackathonUrl(url)": the request is out,
\* the six workflow timers are set, each closing over this render's isLoading
HandleAnalyze ==
    /\ view = "input"
    /\ url # ""
    /\ Len(analyses) < MaxCalls
    /\ isLoading' = TRUE
    /\ logs' = <<>>
    /\ analyses' = Append(analyses,
            [pc |-> "awaiting", requests |-> 1, inFlight |-> 1, isLoading |-> isLoading,
             steps |-> 0, data |-> NoData])
    /\ UNCHANGED <<url, hackathonData, isRecording, recordedBlob, view, stream, recorder,
                   stopping, critiques, instances, mounted, loading, result>>
    /\ UNCHANGED <<resolverVars, pacerVars>>

\* one timer of simulateWorkflow fires: if (isLoading) addLog(step.msg, 'process').
\* isLoading is the value the invocation closed over, so the timers of an
\* invocation that saw isLoading false log nothing; the timers of one
\* invocation fire in order of delay, and after the timers of the same delay
\* that an earlier invocation set
WorkflowStepFires(c) ==
    /\ analyses[c].steps < Len(WorkflowSteps)
    /\ \A b \in 1..(c - 1) : analyses[b].steps > analyses[c].steps
    /\ logs' = IF analyses[c].isLoading
               THEN AddLog(logs, WorkflowSteps[analyses[c].steps + 1], "process")
               ELSE logs
    /\ analyses' = [analyses EXCEPT ![c].steps = @ + 1]
    /\ UNCHANGED <<url, isLoading, hackathonData, isRecording, recordedBlob, view, stream, recorder,
                   stopping, critiques, instances, mounted, loading, result>>
    /\ UNCHANGED <<resolverVars, pacerVars>>

\* handleAnalyze after the await, analyzeHackathonUrl returned data
HandleAnalyzeTry(c, data) ==
    /\ logs' = AddLog(logs, "Analysis Complete!", "success")
    /\ analyses' = [analyses EXCEPT ![c].pc = "timer", ![c].inFlight = @ - 1, ![c].data = data]
    /\ UNCHANGED isLoading

\* a catch block that asks the service once more
HandleAnalyzeCatchRetry(c) ==
    /\ logs' = AddLog(logs, "Error analyzing URL. Trying generic fallback...", "info")
    /\ isLoading' = isLoading
    /\ analyses' = [analyses EXCEPT ![c].pc = "awaiting", ![c].requests = @ + 1]

\* handleAnalyze after the await, analyzeHackathonUrl threw
HandleAnalyzeCatch(c) ==
    /\ logs' = AddLog(logs, "Error analyzing URL. Trying generic fallback...", "info")
    /\ isLoading' = FALSE
    /\ analyses' = [analyses EXCEPT ![c].pc = "failed", ![c].inFlight = @ - 1]

\* the request of invocation c is answered; analyzeHackathonUrl runs to its end
\* and handleAnalyze resumes in its try or its catch
AnalyzeHackathonUrlSettles(c) ==
    /\ analyses[c].pc = "awaiting"
    /\ \E resp \in MirrorUrlResponses :
         LET out == AnalyzeHackathonUrlOutcome(resp)
         IN  IF out.status = "returned"
             THEN HandleAnalyzeTry(c, out.value)
             ELSE HandleAnalyzeCatch(c)
    /\ UNCHANGED <<url, hackathonData, isRecording, recordedBlob, view, stream, recorder,
                   stopping, critiques, instances, mounted, loading, result>>
    /\ UNCHANGED <<resolverVars, pacerVars>>

\* the 1000 ms timer of the try block fires; leaving 'results' unmounts
\* <AnalysisResults>
SuccessTimerFires(c) ==
    /\ analyses[c].pc = "timer"
    /\ hackathonData' = analyses[c].data
    /\ view' = "coach"
    /\ isLoading' = FALSE
    /\ analyses' = [analyses EXCEPT ![c].pc = "done"]
    /\ mounted' = 0
    /\ loading' = TRUE
    /\ result' = NoAnalysis
    /\ UNCHANGED <<url, logs, isRecording, recordedBlob, stream, recorder, stopping, critiques,
                   instances>>
    /\ UNCHANGED <<resolverVars, pacerVars>>

\* recognition.start(): listening begins; on a recognition that has not ended
\* yet the call throws InvalidStateError and leaves it as it is
RecognitionStart(r) == IF r = "idle" THEN "listening" ELSE r

\* recognition.stop(): a listening recognition delivers what it has heard so
\* far and then ends
RecognitionStop(r) == IF r = "listening" THEN "stopping" ELSE r

\* window.speechSynthesis.cancel(): the queue is emptied, the utterance being
\* spoken included
SynthCancel(queue) == <<>>

\* window.speechSynthesis.speak(utterance): the utterance joins the queue
SynthSpeak(queue, text) == Append(queue, text)

\* startRecording; its button is part of the coach view. A throwing
\* recognition.start() skips only setRecordingTime(0)
StartRecording ==
    /\ view = "coach" /\ hackathonData # NoData /\ ~isRecording
    /\ stream
    /\ Len(critiques) + stopping < MaxTakes
    /\ recorder' = "recording"
    /\ isRecording' = TRUE
    /\ recognition' = RecognitionStart(recognition)
    /\ UNCHANGED <<url, isLoading, logs, hackathonData, recordedBlob, view, stream, stopping,
                   analyses, critiques, instances, mounted, loading, result>>
    /\ UNCHANGED <<now, lastTranscriptTime, wordCount, wpm, coachFeedback, tips, utterances,
                   events, observations>>
    /\ UNCHANGED resolverVars

\* stopRecording; its button is part of the coach view
StopRecording ==
    /\ view = "coach" /\ hackathonData # NoData /\ isRecording
    /\ recorder # "none"
    /\ recorder' = "inactive"
    /\ stopping' = stopping + 1
    /\ isRecording' = FALSE
    /\ recognition' = RecognitionStop(recognition)
    /\ utterances' = SynthCancel(utterances)
    /\ UNCHANGED <<url, isLoading, logs, hackathonData, recordedBlob, view, stream,
                   analyses, critiques, instances, mounted, loading, result>>
    /\ UNCHANGED <<now, lastTranscriptTime, wordCount, wpm, coachFeedback, tips, events,
                   observations>>
    /\ UNCHANGED resolverVars

\* mediaRecorder.onstop: the blob is kept and the view becomes 'results'.
\* <AnalysisResults> mounts, or if it is mounted sees a new videoBlob; either
\* way its effect calls runAnalysis, which calls analyzeVideoDemo up to
\* "await blobToBase64(videoBlob)"
RecorderOnStop ==
    /\ stopping > 0
    /\ stopping' = stopping - 1
    /\ recordedBlob' = TRUE
    /\ view' = "results"
    /\ IF mounted = 0
       THEN /\ instances' = instances + 1
            /\ mounted' = instances + 1
            /\ loading' = TRUE
            /\ result' = NoAnalysis
       ELSE UNCHANGED <<instances, mounted, loading, result>>
    /\ critiques' = Append(critiques,
            [owner |-> mounted', pc |-> "encoding", requests |-> 0, inFlight |-> 0, error |-> ""])
    /\ UNCHANGED <<url, isLoading, logs, hackathonData, isRecording, stream, recorder, analyses>>
    /\ UNCHANGED <<resolverVars, pacerVars>>

\* blobToBase64 resolves and analyzeVideoDemo sends its request
CritiqueEncoded(t) ==
    /\ critiques[t].pc = "encoding"
    /\ critiques' = [critiques EXCEPT ![t].pc = "awaiting", ![t].requests = @ + 1,
                                      ![t].inFlight = @ + 1]
    /\ UNCHANGED <<url, isLoading, logs, hackathonData, isRecording, recordedBlob, view, stream,
                   recorder, stopping, analyses, instances, mounted, loading, result>>
    /\ UNCHANGED <<resolverVars, pacerVars>>

\* runAnalysis after the await: catch logs to the console, finally clears
\* loading; a component that is no longer mounted ignores both setters
RunAnalysisEnds(t, out) ==
    IF critiques[t].owner = mounted
    THEN /\ result' = IF out.status = "returned"
                       THEN (IF out.value.k = "null" THEN NoAnalysis ELSE out.value)
                       ELSE result
         /\ loading' = FALSE
    ELSE UNCHANGED <<result, loading>>

\* blobToBase64 rejects: analyzeVideoDemo throws before any request
CritiqueEncodeFails(t) ==
    /\ critiques[t].pc = "encoding"
    /\ critiques' = [critiques EXCEPT ![t].pc = "raised", ![t].error = "FileReader error"]
    /\ RunAnalysisEnds(t, [status |-> "raised", error |-> "FileReader error", value |-> NoAnalysis])
    /\ UNCHANGED <<url, isLoading, logs, hackathonData, isRecording, recordedBlob, view, stream,
                   recorder, stopping, analyses, instances, mounted>>
    /\ UNCHANGED <<resolverVars, pacerVars>>

\* the request of run t is answered; analyzeVideoDemo runs to its end and
\* runAnalysis resumes
AnalyzeVideoDemoSettles(t) ==
    /\ critiques[t].pc = "awaiting"
    /\ \E resp \in MirrorVideoResponses :
         LET out == AnalyzeVideoDemoOutcome(resp)
         IN  /\ critiques' = [critiques EXCEPT ![t].pc = out.status, ![t].inFlight = @ - 1,
                                               ![t].error = out.error]
             /\ RunAnalysisEnds(t, out)
    /\ UNCHANGED <<url, isLoading, logs, hackathonData, isRecording, recordedBlob, view, stream,
                   recorder, stopping, analyses, instances, mounted>>
    /\ UNCHANGED <<resolverVars, pacerVars>>

\* an onRetry that also drops the hackathon record
OnRetryForgetsData ==
    /\ mounted # 0 /\ ~loading /\ result # NoAnalysis
    /\ recordedBlob' = FALSE
    /\ hackathonData' = NoData
    /\ view' = "coach"
    /\ mounted' = 0
    /\ loading' = TRUE
    /\ result' = NoAnalysis
    /\ UNCHANGED <<url, isLoading, logs, isRecording, stream, recorder, stopping,
                   analyses, critiques, instances>>
    /\ UNCHANGED <<resolverVars, pacerVars>>

\* onRetry, the "Record Again" button of the verdict page
OnRetry ==
    /\ mounted # 0 /\ ~loading /\ result # NoAnalysis
    /\ recordedBlob' = FALSE
    /\ view' = "coach"
    /\ mounted' = 0
    /\ loading' = TRUE
    /\ result' = NoAnalysis
    /\ UNCHANGED <<url, isLoading, logs, hackathonData, isRecording, stream, recorder, stopping,
                   analyses, critiques, instances>>
    /\ UNCHANGED <<resolverVars, pacerVars>>

\* the component from the URL to the verdict; the workflow timers, which only
\* write to logs, are left pending
NextMirror ==
    \/ InitCameraResolves
    \/ \E u \in {"", "https://lu.ma/h"} : SetUrl(u)
    \/ HandleAnalyze
    \/ \E c \in 1..Len(analyses) : AnalyzeHackathonUrlSettles(c)
    \/ \E c \in 1..Len(analyses) : SuccessTimerFires(c)
    \/ StartRecording
    \/ StopRecording
    \/ RecorderOnStop
    \/ \E t \in 1..Len(critiques) : CritiqueEncoded(t)
    \/ \E t \in 1..Len(critiques) : CritiqueEncodeFails(t)
    \/ \E t \in 1..Len(critiques) : AnalyzeVideoDemoSettles(t)
    \/ OnRetry

SpecMirror == Init /\ [][NextMirror]_vars

\* the URL stage of the component with its workflow timers; two invocations
\* that both log interleave twelve timers, so this stage is kept apart from the
\* rehearsal
NextWorkflow ==
    \/ \E u \in {"", "https://lu.ma/h"} : SetUrl(u)
    \/ HandleAnalyze
    \/ \E c \in 1..Len(analyses) : WorkflowStepFires(c)
    \/ \E c \in 1..Len(analyses) : AnalyzeHackathonUrlSettles(c)
    \/ \E c \in 1..Len(analyses) : SuccessTimerFires(c)

SpecWorkflow == Init /\ [][NextWorkflow]_vars

\* -------------------------------------------------------- the live coach
\* the words an event can carry in its transcripts
WordInputs == {0, 20}

\* fullText.trim().split(/\s+/).length for a text of n words: splitting the
\* empty string yields one empty piece
WordsOf(n) == IF n = 0 THEN 1 ELSE n

\* minutes > 0.08, with minutes = elapsed / 60000 and elapsed in ms
MinIntervalMs == 4800
MsPerMinute == 60000

\* a pacer that recomputes on every observation after the clock has moved
RecomputesEarly(elapsed) == elapsed > 0

Recomputes(elapsed) == elapsed > MinIntervalMs

\* Math.floor in the place of Math.round
RoundDown(n, d) == n \div d

\* Math.round(n / d) for d > 0: the nearest integer, a half going up
Round(n, d) == (2 * n + d) \div (2 * d)

\* a rate over all the words of the event, the last count left out
CurrentWPMCumulative(words, last, elapsed) == Round(words * MsPerMinute, elapsed)

\* Math.round((words - wordCountRef.current) / minutes). On the clock values
\* of this model the double-precision quotient rounds as the exact one does
CurrentWPM(words, last, elapsed) == Round((words - last) * MsPerMinute, elapsed)

\* setWpm(currentWPM > 0 ? currentWPM : 0)
ClampWPM(w) == IF w > 0 THEN w ELSE 0

\* a tip request after every recomputation
ShouldRequestTipAlways(currentWPM) == TRUE

\* if (currentWPM > 0), the condition of the tip request
ShouldRequestTip(currentWPM) == currentWPM > 0

\* speakFeedback without its synth.cancel()
SpeakFeedbackQueued(queue, text) == SynthSpeak(queue, text)

\* speakFeedback: synth.cancel(), then synth.speak(utterance)
SpeakFeedback(queue, text) == SynthSpeak(SynthCancel(queue), text)

\* stopRecording has been invoked this many times
Stops == Len(critiques) + stopping

\* the delays after which the clock is read again
Delays == {3000, 10000}

\* Date.now() advances
TimePasses(d) ==
    /\ now + d <= MaxClock
    /\ now' = now + d
    /\ UNCHANGED <<lastTranscriptTime, wordCount, wpm, coachFeedback, recognition, tips,
                   utterances, events, observations>>
    /\ UNCHANGED <<resolverVars, mirrorVars>>

\* the tip requests of ts that are not answered yet
Awaiting(ts) == { i \in 1..Len(ts) : ts[i].pc = "awaiting" }

\* the tip requests of ts whose answer has run the .then callback
Applied(ts) == { i \in 1..Len(ts) : ts[i].pc = "applied" }

\* the last two entries of a sequence
LastTwo(q) == IF Len(q) <= 2 THEN q ELSE SubSeq(q, Len(q) - 1, Len(q))

\* recognition.onresult for an event whose transcripts hold n words
OnResult(n) ==
    /\ recognition \in {"listening", "stopping"}
    /\ events < MaxEvents
    /\ events' = events + 1
    /\ LET words == WordsOf(n)
           elapsed == now - lastTranscriptTime
           currentWPM == CurrentWPM(words, wordCount, elapsed)
       IN  /\ IF Recomputes(elapsed)
              THEN /\ wpm' = ClampWPM(currentWPM)
                   /\ wordCount' = words
                   /\ lastTranscriptTime' = now
                   /\ IF ShouldRequestTip(currentWPM)
                      THEN tips' = Append(tips,
                              [pc |-> "awaiting", wpm |-> currentWPM, stops |-> Stops, fb |-> "",
                               order |-> 0, stopsThen |-> 0])
                      ELSE UNCHANGED tips
              ELSE UNCHANGED <<wpm, wordCount, lastTranscriptTime, tips>>
           /\ observations' = LastTwo(Append(observations,
                  [words |-> words, at |-> now,
                   wordCount0 |-> wordCount, time0 |-> lastTranscriptTime, wpm0 |-> wpm,
                   tips0 |-> Len(tips),
                   wordCount1 |-> wordCount', time1 |-> lastTranscriptTime', wpm1 |-> wpm',
                   tips1 |-> Len(tips')]))
    /\ UNCHANGED <<now, coachFeedback, recognition, utterances>>
    /\ UNCHANGED <<resolverVars, mirrorVars>>

\* a stopped recognition ends
RecognitionEnds ==
    /\ recognition = "stopping"
    /\ recognition' = "idle"
    /\ UNCHANGED <<now, lastTranscriptTime, wordCount, wpm, coachFeedback, tips, utterances,
                   events, observations>>
    /\ UNCHANGED <<resolverVars, mirrorVars>>

\* getRealTimeFeedback of tip request i settles on the answer resp, and the
\* .then callback of onresult runs: setCoachFeedback(fb); speakFeedback(fb)
TipSettles(i, resp) ==
    /\ tips[i].pc = "awaiting"
    /\ LET out == GetRealTimeFeedbackOutcome(resp)
       IN  IF out.status = "returned"
           THEN /\ tips' = [tips EXCEPT ![i].pc = "applied", ![i].fb = out.tip,
                                        ![i].order = Cardinality(Applied(tips)) + 1,
                                        ![i].stopsThen = Stops]
                /\ coachFeedback' = out.tip
                /\ utterances' = SpeakFeedback(utterances, out.tip)
           ELSE /\ tips' = [tips EXCEPT ![i].pc = "raised"]
                /\ UNCHANGED <<coachFeedback, utterances>>
    /\ UNCHANGED <<now, lastTranscriptTime, wordCount, wpm, recognition, events, observations>>
    /\ UNCHANGED <<resolverVars, mirrorVars>>

\* the utterance being spoken comes to its end
UtteranceEnds ==
    /\ utterances # <<>>
    /\ utterances' = Tail(utterances)
    /\ UNCHANGED <<now, lastTranscriptTime, wordCount, wpm, coachFeedback, recognition, tips,
                   events, observations>>
    /\ UNCHANGED <<resolverVars, mirrorVars>>

\* the data of an analysis that succeeded
ReadyData ==
    CHOOSE data \in { AnalyzeHackathonUrlOutcome(r).value :
                        r \in { q \in MirrorUrlResponses :
                                  AnalyzeHackathonUrlOutcome(q).status = "returned" } } : TRUE

\* the coach view once the camera is on and the one invocation of
\* handleAnalyze has succeeded: InitCameraResolves, SetUrl, HandleAnalyze,
\* AnalyzeHackathonUrlSettles into the try block, SuccessTimerFires
RehearsalReady ==
    /\ ResolverInit
    /\ url = "https://lu.ma/h"
    /\ isLoading = FALSE
    /\ logs = AddLog(<<>>, "Analysis Complete!", "success")
    /\ hackathonData = ReadyData
    /\ isRecording = FALSE
    /\ recordedBlob = FALSE
    /\ view = "coach"
    /\ stream = TRUE
    /\ recorder = "none"
    /\ stopping = 0
    /\ analyses = <<[pc |-> "done", requests |-> 1, inFlight |-> 0, isLoading |-> FALSE,
                     steps |-> 0, data |-> ReadyData]>>
    /\ critiques = <<>>
    /\ instances = 0
    /\ mounted = 0
    /\ loading = TRUE
    /\ result = NoAnalysis
    /\ PacerInit

\* the rehearsal with its live coach
NextPacer ==
    \/ \E d \in Delays : TimePasses(d)
    \/ StartRecording
    \/ StopRecording
    \/ \E n \in WordInputs : OnResult(n)
    \/ RecognitionEnds
    \/ \E i \in 1..Len(tips) : \E resp \in TipResponses : TipSettles(i, resp)
    \/ UtteranceEnds

SpecPacer == RehearsalReady /\ [][NextPacer]_vars

\* ============================================================ the resolvers
UrlReturned == fn = "analyzeHackathonUrl" /\ pc = "returned"
UrlRaised == fn = "analyzeHackathonUrl" /\ pc = "raised"
VideoReturned == fn = "analyzeVideoDemo" /\ pc = "returned"
VideoRaised == fn = "analyzeVideoDemo" /\ pc = "raised"

\* the judges field of the parsed answer is missing (undefined or null)
JudgesMissing == response.parsed.judges.k \in {"undefined", "null"}

\* the judges field of the parsed answer is the empty list
JudgesEmpty == response.parsed.judges.k = "array" /\ Len(response.parsed.judges.v) = 0

\* C1: every record analyzeHackathonUrl returns has a judges list of length
\* at least 1, whatever the judges field of the parsed answer was.
C1_JudgesNonEmpty ==
    UrlReturned => ret.judges.k = "array" /\ Len(ret.judges.v) >= 1

\* C1: a record was returned for an answer whose judges field is not a list
C1_Witness ==
    UrlReturned /\ response.parsed.judges.k = "string"

\* C2: a missing or empty judges list is replaced by the built-in panel, the
\* technical judge then the product judge, each with its four lists set; a
\* non-empty judges list is returned as received.
C2_FallbackPanel ==
    UrlReturned =>
        /\ (JudgesMissing \/ JudgesEmpty) =>
              /\ Len(ret.judges.v) >= 2
              /\ ret.judges.v[1].name = "The Technical Judge"
              /\ ret.judges.v[2].name = "The Product Judge"
              /\ \A i \in 1..Len(ret.judges.v) : \A f \in JudgeListFields :
                    ret.judges.v[i][f].k = "array"
        /\ (response.parsed.judges.k = "array" /\ Len(response.parsed.judges.v) > 0) =>
              ret.judges = response.parsed.judges

\* C2: a record was returned for an answer with an empty judges list
C2_Witness ==
    UrlReturned /\ JudgesEmpty

\* C3 as claimed: when the answer carries no judges the returned record holds
\* exactly 3 archetype judges.
C3_ThreeArchetypes ==
    (UrlReturned /\ (JudgesMissing \/ JudgesEmpty)) => Len(ret.judges.v) = 3

\* C3 as amended: when the answer carries no judges the returned record holds
\* exactly the 2 judges of the built-in panel.
C3_TwoFallbackJudges ==
    (UrlReturned /\ (JudgesMissing \/ JudgesEmpty)) => Len(ret.judges.v) = 2

\* C3: a record was returned for an answer that has no judges field
C3_Witness ==
    UrlReturned /\ response.parsed.k = "object" /\ response.parsed.judges.k = "undefined"

\* C4 as claimed: every judge of a returned record has values, focusAreas,
\* redFlags and recommendedTalkingPoints each present as a list.
C4_JudgeListsPresent ==
    UrlReturned =>
        \A i \in 1..Len(ret.judges.v) : \A f \in JudgeListFields :
            ret.judges.v[i][f].k = "array"

\* C5: strategy.generatedScript of a returned record is a non-empty string.
C5_ScriptNonEmpty ==
    UrlReturned =>
        /\ ret.strategy.k = "object"
        /\ ret.strategy.generatedScript.k = "string"
        /\ ret.strategy.generatedScript.s # ""

\* C5: a record was returned for an answer whose generatedScript is ""
C5_Witness ==
    /\ UrlReturned
    /\ response.parsed.strategy.k = "object"
    /\ response.parsed.strategy.generatedScript = Str("")

\* C6 as claimed: structure, keyPhrases and featuresToEmphasize of a returned
\* record's strategy are each present as a list.
C6_StrategyListsPresent ==
    UrlReturned => \A f \in StrategyListFields : ret.strategy[f].k = "array"

\* C7: the normalization pass applied to a record it has produced leaves the
\* record as it is.
C7_NormalizeIdempotent ==
    UrlReturned => Normalize(ret) = ret

\* C7: a record was returned that the first pass had to repair
C7_Witness ==
    UrlReturned /\ ret # response.parsed /\ Normalize(ret) = ret

\* C8 as claimed: a completed call either raised and returned no record, or
\* returned a record with title, url, criteria, judges and strategy present.
C8_CompleteOrRaised ==
    (fn = "analyzeHackathonUrl" /\ pc \in {"returned", "raised"}) =>
        \/ pc = "raised" /\ error # "" /\ ret = NoData
        \/ pc = "returned" /\ \A f \in HackathonDataFields : Present(ret[f])

C10_ExactlyOneRequest ==
    /\ \A c \in 1..Len(analyses) :
          /\ analyses[c].requests = 1
          /\ analyses[c].inFlight <= 1
    /\ \A t \in 1..Len(critiques) :
          /\ critiques[t].inFlight <= 1
          /\ critiques[t].pc \in {"returned", "raised"} => critiques[t].requests = 1

\* C10 as amended: every resolution issues at most one inference request:
\* exactly one, unless analyzeVideoDemo fails while encoding the video, and
\* then none. A failed request is followed by no other, and a resolution never
\* has more than one request in flight.
C10_AtMostOneRequest ==
    /\ \A c \in 1..Len(analyses) :
          /\ analyses[c].requests = 1
          /\ analyses[c].inFlight = (IF analyses[c].pc = "awaiting" THEN 1 ELSE 0)
    /\ \A t \in 1..Len(critiques) :
          /\ critiques[t].inFlight = (IF critiques[t].pc = "awaiting" THEN 1 ELSE 0)
          /\ critiques[t].requests =
                (IF \/ critiques[t].pc = "encoding"
                    \/ critiques[t].pc = "raised" /\ critiques[t].error = "FileReader error"
                 THEN 0 ELSE 1)

\* C10: a URL analysis has failed and a critique has failed after its request
C10_Witness ==
    /\ \E c \in 1..Len(analyses) : analyses[c].pc = "failed"
    /\ \E t \in 1..Len(critiques) :
          critiques[t].pc = "raised" /\ critiques[t].error # "FileReader error"

\* ============================================================ the live coach
FeedbackSettled == fn = "getRealTimeFeedback" /\ pc \in {"returned", "raised"}

\* C11: getRealTimeFeedback never raises: a failed request yields
\* "Keep going!", an answer without text or with empty text yields
\* "Keep going!", and any other answer yields its text.
C11_FeedbackNeverRaises ==
    /\ fn = "getRealTimeFeedback" => pc # "raised"
    /\ FeedbackSettled =>
         /\ tipResponse.kind = "rejected" => feedback = "Keep going!"
         /\ tipResponse.kind = "answered" /\ tipResponse.text.k = "undefined"
                => feedback = "Keep going!"
         /\ tipResponse.kind = "answered" /\ tipResponse.text = Str("")
                => feedback = "Keep going!"
         /\ tipResponse.kind = "answered" /\ tipResponse.text.k = "string"
                /\ tipResponse.text.s # ""
                => feedback = tipResponse.text.s

\* a failed request has been turned into the default tip
C11_Witness ==
    /\ FeedbackSettled
    /\ tipResponse.kind = "rejected"
    /\ feedback = "Keep going!"

\* C12: at most one coaching-tip request is in flight at any time.
C12_AtMostOneInFlight == Cardinality(Awaiting(tips)) <= 1

\* C13: the result of an earlier tip request is never applied after the
\* result of a later one, so the tip displayed once both have arrived is
\* the later request's.
C13_StaleResponseRejected ==
    \A i, j \in Applied(tips) : i < j => tips[i].order < tips[j].order

\* C14: the answer to a tip request that was in flight when stopRecording
\* was invoked is neither displayed nor spoken.
C14_NoEffectAfterStop ==
    \A i \in Applied(tips) : tips[i].stopsThen = tips[i].stops

\* C15: every startRecording leaves the last word count 0, the time of the
\* last rate computation equal to the start time and the wpm 0.
C15_StartResetsPacer ==
    [][(~isRecording /\ isRecording')
          => (wordCount' = 0 /\ lastTranscriptTime' = now' /\ wpm' = 0)]_vars

\* the runs of onresult still on record
Observed == { observations[k] : k \in 1..Len(observations) }

\* the time between the run o and the rate computation before it
Elapsed(o) == o.at - o.time0

\* the rates a run can arrive at
Rates ==
    LET most == (20 * MsPerMinute) \div MinIntervalMs
    IN  (0 - most)..most

\* r is the integer nearest to delta words in elapsed ms taken per minute, a
\* half counting upwards
Nearest(r, delta, elapsed) ==
    /\ (2 * r - 1) * elapsed <= 2 * delta * MsPerMinute
    /\ 2 * delta * MsPerMinute < (2 * r + 1) * elapsed

\* wpm, wordCountRef and lastTranscriptTimeRef are as the last run left them
PacerAsLastRunLeftIt ==
    observations # <<>> =>
        LET o == observations[Len(observations)]
        IN  wpm = o.wpm1 /\ wordCount = o.wordCount1 /\ lastTranscriptTime = o.time1

\* C16: a run more than the minimum interval after the last rate computation
\* sets wpm to round((words - last words) / elapsed minutes), or to 0 if that
\* is negative, and advances the last word count and the last computation
\* time to its own; 20 words 10 s after a count of 0 give 120.
C16_RateRecomputed ==
    /\ PacerAsLastRunLeftIt
    /\ \A o \in Observed :
         Elapsed(o) > MinIntervalMs =>
            /\ \E r \in Rates :
                  /\ Nearest(r, o.words - o.wordCount0, Elapsed(o))
                  /\ o.wpm1 = IF r > 0 THEN r ELSE 0
            /\ o.wordCount1 = o.words
            /\ o.time1 = o.at
            /\ (o.wordCount0 = 0 /\ o.words = 20 /\ Elapsed(o) = 10000) => o.wpm1 = 120

\* 20 words were observed 10 s after a count of 0
C16_Witness ==
    /\ \E o \in Observed :
         /\ o.wordCount0 = 0 /\ o.time0 = 0 /\ o.words = 20 /\ o.at = 10000
         /\ o.wpm1 = 120 /\ wpm = 120 /\ wordCount = 20 /\ lastTranscriptTime = 10000

\* C17: a run issues a tip request exactly when it recomputed the rate and
\* the recomputed wpm is above 0; any other run issues none.
C17_TipIffPositiveRate ==
    \A o \in Observed :
        /\ o.tips1 \in {o.tips0, o.tips0 + 1}
        /\ o.tips1 = o.tips0 + 1 <=> (Elapsed(o) > MinIntervalMs /\ o.wpm1 > 0)

\* one run recomputed a positive rate and asked for a tip, another
\* recomputed a rate of 0 and did not
C17_Witness ==
    /\ Len(observations) = 2
    /\ observations[1].tips1 = observations[1].tips0 + 1
    /\ observations[1].wpm1 > 0
    /\ Elapsed(observations[2]) > MinIntervalMs
    /\ observations[2].wpm1 = 0
    /\ observations[2].tips1 = observations[2].tips0

\* C18: a run within the minimum interval of the last rate computation
\* leaves wpm, the last word count and the last computation time as they
\* were and issues no tip request; after two such runs in a row the wpm is
\* what it was before them.
C18_SubThresholdUnchanged ==
    /\ \A o \in Observed :
         Elapsed(o) <= MinIntervalMs =>
            /\ o.wpm1 = o.wpm0
            /\ o.wordCount1 = o.wordCount0
            /\ o.time1 = o.time0
            /\ o.tips1 = o.tips0
    /\ (/\ Len(observations) = 2
        /\ Elapsed(observations[1]) <= MinIntervalMs
        /\ Elapsed(observations[2]) <= MinIntervalMs)
            => wpm = observations[1].wpm0

\* two runs in a row came within the interval, with other words than the last
\* count and after a rate above 0
C18_Witness ==
    /\ Len(observations) = 2
    /\ \A k \in 1..2 :
         /\ Elapsed(observations[k]) <= MinIntervalMs
         /\ Elapsed(observations[k]) > 0
         /\ observations[k].words # observations[k].wordCount0
    /\ wpm > 0

\* C19: a run with no more and no fewer words than the last count, more than
\* the minimum interval after the last rate computation, sets wpm to 0 and
\* issues no tip request.
C19_ZeroDeltaNoTip ==
    \A o \in Observed :
        (Elapsed(o) > MinIntervalMs /\ o.words = o.wordCount0)
            => (o.wpm1 = 0 /\ o.tips1 = o.tips0)

\* the same 20 words were observed again after the interval, the wpm having
\* been above 0
C19_Witness ==
    \E o \in Observed :
        /\ Elapsed(o) > MinIntervalMs
        /\ o.words = 20 /\ o.wordCount0 = 20
        /\ o.wpm0 > 0 /\ o.wpm1 = 0
        /\ wpm = 0

\* the tip request whose answer was applied last
LastApplied == CHOOSE i \in Applied(tips) : \A j \in Applied(tips) : tips[j].order <= tips[i].order

\* C20: an applied tip becomes coachFeedback whatever was shown before, and
\* what was queued or being spoken is cancelled before the tip is spoken, so
\* speech output never holds more than one tip.
C20_OneTipLive ==
    /\ Len(utterances) <= 1
    /\ utterances # <<>> => utterances[1] = coachFeedback
    /\ Applied(tips) # {} => coachFeedback = tips[LastApplied].fb
    /\ Applied(tips) = {} => (coachFeedback = "Ready when you are..." /\ utterances = <<>>)

\* a second tip, unlike the first, has been applied and is the one in the
\* speech queue
C20_Witness ==
    /\ Cardinality(Applied(tips)) = 2
    /\ \E i, j \in Applied(tips) :
         /\ tips[i].order < tips[j].order
         /\ tips[i].fb # tips[j].fb
         /\ utterances = <<tips[j].fb>>
         /\ coachFeedback = tips[j].fb

\* ================================================= the session's records
\* the record is one that an invocation of handleAnalyze received
Published == \E c \in 1..Len(analyses) : analyses[c].pc = "done" /\ hackathonData = analyses[c].data

\* C21: a non-null hackathonData is a normalized result of
\* analyzeHackathonUrl, with judges and a script; the coach view is never
\* shown without it; only the success timer of handleAnalyze writes it, so
\* recording, coaching, critique and retry leave it as it is.
C21_PublishedComplete ==
    /\ [](hackathonData # NoData =>
            /\ Published
            /\ hackathonData = Normalize(hackathonData)
            /\ IsArray(hackathonData.judges) /\ Len(hackathonData.judges.v) > 0
            /\ TruthyStr(hackathonData.strategy.generatedScript))
    /\ [](view \in {"coach", "results"} => hackathonData # NoData)
    /\ [][hackathonData' # hackathonData =>
            \E c \in 1..Len(analyses) :
                /\ analyses[c].pc = "timer" /\ analyses'[c].pc = "done"
                /\ hackathonData' = analyses[c].data]_vars

\* a take has been recorded, judged and retried, and the coach view shows
\* the record of the first analysis
C21_Witness ==
    /\ view = "coach"
    /\ Len(critiques) >= 1
    /\ ~recordedBlob
    /\ hackathonData # NoData
    /\ hackathonData = analyses[1].data

\* the entry the catch block of handleAnalyze logs
ErrorEntry == [msg |-> "Error analyzing URL. Trying generic fallback...", type |-> "info"]

\* invocation c of handleAnalyze goes from its await into its catch block
AnalysisFails(c) == analyses[c].pc = "awaiting" /\ analyses'[c].pc = "failed"

\* C22: when analyzeHackathonUrl fails, handleAnalyze leaves view 'input',
\* isLoading false and hackathonData as it was, and appends an error entry to
\* the log.
C22_FailureReturnsToInput ==
    [][\A c \in 1..Len(analyses) :
          AnalysisFails(c) =>
              /\ view' = "input"
              /\ ~isLoading'
              /\ hackathonData' = hackathonData
              /\ logs' = Append(logs, ErrorEntry)]_vars

\* run t of runAnalysis, in the mounted component, goes into its catch block
CritiqueFails(t) ==
    /\ critiques[t].pc \in {"encoding", "awaiting"}
    /\ critiques'[t].pc = "raised"
    /\ critiques[t].owner = mounted

\* run t of runAnalysis, in the mounted component, gets its analysis
CritiqueReturns(t) ==
    /\ critiques[t].pc = "awaiting"
    /\ critiques'[t].pc = "returned"
    /\ critiques[t].owner = mounted

\* what JSON.parse made of one of the service's answers
ParsedAnswers ==
    { IF r.parsed.k = "null" THEN NoAnalysis ELSE r.parsed :
        r \in { q \in MirrorVideoResponses : q.kind = "json" } }

\* C23: analyzeVideoDemo hands on what it parsed and raises on every
\* failure; a critique that failed leaves AnalysisResults with loading false
\* and result null, never with a critique on display.
C23_FailedCritiqueShowsError ==
    [][\A t \in 1..Len(critiques) :
          /\ CritiqueFails(t) => (~loading' /\ result' = NoAnalysis)
          /\ CritiqueReturns(t) => (~loading' /\ result' \in ParsedAnswers)]_vars

\* AnalysisResults shows "Error loading results."
ErrorState == mounted # 0 /\ view = "results" /\ ~loading /\ result = NoAnalysis

\* C24: where AnalysisResults has loading false and result null, the retry
\* action is on offer.
C24_RetryOffered == ErrorState => ENABLED OnRetry

\* the analysis a has one feedback entry for each judge of the argument,
\* under that judge's name
OnePerJudge(a) ==
    /\ IsArray(a.judgeSpecificFeedback)
    /\ Len(a.judgeSpecificFeedback.v) = Len(judgesArg.v)
    /\ { a.judgeSpecificFeedback.v[i].judgeName : i \in 1..Len(a.judgeSpecificFeedback.v) }
          = { judgesArg.v[i].name : i \in 1..Len(judgesArg.v) }

\* C25: the analysis analyzeVideoDemo returns has one feedback entry per
\* judge of its hackathonData, under that judge's name; for one judge, one
\* entry.
C25_OneFeedbackPerJudge == VideoReturned => OnePerJudge(analysis)

\* C25, amended: analyzeVideoDemo returns judgeSpecificFeedback as the
\* service sent it, so the analysis has one entry per judge whenever the
\* service's answer has.
C25_FeedbackAsAnswered ==
    VideoReturned =>
        /\ analysis.judgeSpecificFeedback = videoResponse.parsed.judgeSpecificFeedback
        /\ OnePerJudge(videoResponse.parsed) => OnePerJudge(analysis)

\* the one judge the prompt named is the one the returned feedback is about
C25_Witness ==
    /\ VideoReturned
    /\ PromptJudges(judgesArg) = <<"Ada">>
    /\ OnePerJudge(videoResponse.parsed)
    /\ Len(analysis.judgeSpecificFeedback.v) = 1
    /\ analysis.judgeSpecificFeedback.v[1].judgeName = "Ada"

\* the step is onRetry
RetryStep == view = "results" /\ view' = "coach" /\ recordedBlob /\ ~recordedBlob'

\* the step is mediaRecorder.onstop, a take reaching the results view
TakeReachesResults == stopping' = stopping - 1 /\ view' = "results"

\* C26: each take that reaches the results view has analyzeVideoDemo called
\* once, and a result that has been set stays as it is until onRetry leaves
\* the view.
C26_ResultCreatedOnce ==
    [][/\ Len(critiques') = Len(critiques) + 1 <=> TakeReachesResults
       /\ Len(critiques') \in {Len(critiques), Len(critiques) + 1}
       /\ (result # NoAnalysis /\ result' # result) => RetryStep]_vars

\* the invocations of handleAnalyze whose analyzeHackathonUrl is not settled
AnalysesInFlight == { c \in 1..Len(analyses) : analyses[c].pc = "awaiting" }

\* C27: at most one URL analysis is in flight; handleAnalyze invoked while
\* isLoading is true starts no second analyzeHackathonUrl.
C27_OneAnalysisInFlight ==
    /\ Cardinality(AnalysesInFlight) <= 1
    /\ AnalysesInFlight # {} => isLoading

\* invocation c of handleAnalyze has its success timer fire
AnalysisSucceeds(c) == analyses[c].pc = "timer" /\ analyses'[c].pc = "done"

\* every invocation of handleAnalyze has run to its end
AllAnalysesOver == \A c \in 1..Len(analyses) : analyses[c].pc \in {"done", "failed"}

\* C28: an analysis leaves the loading state: its success clears isLoading
\* together with setting hackathonData and view 'coach', its failure clears
\* isLoading with view still 'input'.
C28_LoadingEndsInPlace ==
    [][\A c \in 1..Len(analyses) :
          /\ AnalysisSucceeds(c) =>
                (~isLoading' /\ hackathonData' = analyses[c].data /\ view' = "coach")
          /\ AnalysisFails(c) => (~isLoading' /\ view' = "input")]_vars

\* a workflow timer of invocation c fires
TimerFires(c) == analyses'[c].steps = analyses[c].steps + 1

\* C29: a workflow step is appended to the log when its delay elapses while
\* an analysis is loading, and only then: the steps of the first analysis
\* are logged, and none is logged once loading is over.
C29_StepLoggedIffLoading ==
    [][\A c \in 1..Len(analyses) :
          TimerFires(c) =>
              IF isLoading
              THEN logs' = Append(logs, [msg |-> WorkflowSteps[analyses[c].steps + 1],
                                         type |-> "process"])
              ELSE logs' = logs]_vars

====
